---------------------------- MODULE Spec2Model ----------------------------
(***************************************************************************)
(* ESC/POS printer bridge: the printer module (spooler variant and direct  *)
(* variant) with its spooler submission routine and its child processes,   *)
(* the server's listen callback, POST /print handler and shutdown, and the *)
(* receipt builder with its layout functions, as a state machine.          *)
(*                                                                         *)
(* A JavaScript string is a sequence of one-character strings.  Null is    *)
(* the one sequence whose only element is not a single character, so that  *)
(* null and the empty string stay distinct, as they are in the code.       *)
(***************************************************************************)
EXTENDS Integers, Sequences, FiniteSets, TLC

\* ------------------------------------------------------------------ bounds

\* Number of POST /print requests that arrive during one run of the server.
NumReq == 2
\* Number of ThermalPrinter instances one process may construct.
MaxInst == 2
\* Number of receipts an API caller may build into one buffer before printing.
MaxPending == 2
\* Number of staged receipt files that may pile up in the temp directory.
MaxFiles == 2

\* ----------------------------------------------------------------- strings

Null == <<"null">>

LowerChars == <<"a","b","c","d","e","f","g","h","i","j","k","l","m",
                "n","o","p","q","r","s","t","u","v","w","x","y","z">>
UpperChars == <<"A","B","C","D","E","F","G","H","I","J","K","L","M",
                "N","O","P","Q","R","S","T","U","V","W","X","Y","Z">>
DigitChars == <<"0","1","2","3","4","5","6","7","8","9">>

Range(s) == {s[i] : i \in 1..Len(s)}

ToUpperChar(c) ==
  IF c \in Range(LowerChars)
    THEN UpperChars[CHOOSE i \in 1..Len(LowerChars) : LowerChars[i] = c]
    ELSE c

\* String.prototype.toUpperCase
ToUpperCase(s) == [i \in 1..Len(s) |-> ToUpperChar(s[i])]

\* String.prototype.includes
Includes(s, sub) ==
  \E i \in 0..(Len(s) - Len(sub)) : SubSeq(s, i + 1, i + Len(sub)) = sub

IsAlphaNum(c) == c \in (Range(LowerChars) \cup Range(UpperChars) \cup Range(DigitChars))
IsSpace(c) == c \in {" ", "\r", "\n", "\t"}
NotCR(c) == c # "\r"

RECURSIVE TrimStart(_)
TrimStart(s) ==
  IF s # <<>> /\ IsSpace(Head(s)) THEN TrimStart(Tail(s)) ELSE s

RECURSIVE TrimEnd(_)
TrimEnd(s) ==
  IF s # <<>> /\ IsSpace(s[Len(s)]) THEN TrimEnd(SubSeq(s, 1, Len(s) - 1)) ELSE s

\* String.prototype.trim
Trim(s) == TrimEnd(TrimStart(s))

\* String.prototype.split(sep) for a one-character separator: the pieces
\* between separators, one piece (possibly empty) when there is none.
RECURSIVE SplitAcc(_, _, _, _)
SplitAcc(s, sep, cur, acc) ==
  IF s = <<>> THEN Append(acc, cur)
  ELSE IF Head(s) = sep THEN SplitAcc(Tail(s), sep, <<>>, Append(acc, cur))
  ELSE SplitAcc(Tail(s), sep, Append(cur, Head(s)), acc)

Split(s, sep) == SplitAcc(s, sep, <<>>, <<>>)

\* x.replace(/[^A-Za-z0-9]/g, '')
StripNonAlphaNum(s) == SelectSeq(s, IsAlphaNum)
\* x.replace(/\r/g, '')
StripCR(s) == SelectSeq(s, NotCR)
\* x || null, for a string x
OrNull(s) == IF s = <<>> THEN Null ELSE s

RECURSIVE Concat(_)
Concat(ss) == IF ss = <<>> THEN <<>> ELSE Head(ss) \o Concat(Tail(ss))

RECURSIVE JoinWith(_, _)
JoinWith(ss, sep) ==
  IF ss = <<>> THEN <<>>
  ELSE IF Len(ss) = 1 THEN ss[1]
  ELSE ss[1] \o <<sep>> \o JoinWith(Tail(ss), sep)

\* --------------------------------------------------------- program literals

\* 'SEWOO', the vendor substring looked for in each line
SEWOO == <<"S","E","W","O","O">>
\* 'SEWOO SLK-TS 100', the hard-coded default device name
DefaultPrinterName == <<"S","E","W","O","O"," ","S","L","K","-","T","S"," ","1","0","0">>
\* 'LPT1', the fallback port
LPT1 == <<"L","P","T","1">>
\* 'FALSE', the registry's WorkOffline value of a device that is online
FALSE_TEXT == <<"F","A","L","S","E">>
\* '\\\\.\\' in the template literal: the device namespace prefix \\.\
DevicePrefix == <<"\\","\\",".","\\">>
\* '/dev/usb/lp0', the interface of the direct variant off Windows
UsbLp0 == <<"/","d","e","v","/","u","s","b","/","l","p","0">>

\* wmic get field lists and the column index each caller asks for
FieldsPort == <<"Name", "PortName">>
FieldsName == <<"Name">>
FieldsOffline == <<"Name", "WorkOffline">>

\* ----------------------------------------------- the OS printer registry

\* Cell values of the registry rows the model draws from.
NodePC == <<"P","C">>
NodeSewooPC == <<"S","E","W","O","O","-","P","C">>
NameSewoo == <<"S","E","W","O","O"," ","S","L","K","-","T","S"," ","1","0","0">>
NameSewooLower == <<"S","e","w","o","o","-","5","8">>
NameOther == <<"H","P">>
PortUsb1 == <<"U","S","B","0","0","1">>
PortUsb2 == <<"U","S","B","0","0","2">>
PortCom3 == <<"C","O","M","3",":">>
TextTrue == <<"T","R","U","E">>

Row(node, name, port, offline) ==
  [node |-> node, name |-> name, port |-> port, offline |-> offline]

\* The registry states the model draws from, by name.
RegEmpty == <<>>
RegOnline == <<Row(NodePC, NameSewoo, PortUsb1, FALSE_TEXT)>>
RegOffline == <<Row(NodePC, NameSewoo, PortUsb1, TextTrue)>>
RegSecond == <<Row(NodePC, NameOther, PortUsb2, TextTrue),
               Row(NodePC, NameSewooLower, PortCom3, FALSE_TEXT)>>
RegNoPort == <<Row(NodePC, NameSewoo, <<>>, <<>>)>>
RegNodeMatch == <<Row(NodeSewooPC, NameOther, PortUsb2, TextTrue)>>

Registries == {"empty", "online", "offline", "second", "noport", "nodematch"}

RegistryRows(reg) ==
  CASE reg = "empty" -> RegEmpty
    [] reg = "online" -> RegOnline
    [] reg = "offline" -> RegOffline
    [] reg = "second" -> RegSecond
    [] reg = "noport" -> RegNoPort
    [] reg = "nodematch" -> RegNodeMatch

\* How one external wmic invocation ends: it fails or times out ("error"),
\* prints the table ("ok"), or prints rows cut short after the Name column
\* ("cut").
ExecKinds == {"ok", "error", "cut"}

FieldChars(f) ==
  CASE f = "Name" -> <<"N","a","m","e">>
    [] f = "PortName" -> <<"P","o","r","t","N","a","m","e">>
    [] f = "WorkOffline" -> <<"W","o","r","k","O","f","f","l","i","n","e">>

FieldValue(row, f) ==
  CASE f = "Name" -> row.name
    [] f = "PortName" -> row.port
    [] f = "WorkOffline" -> row.offline

\* The text of `wmic printer get <fields> /format:csv`: a blank line, the
\* header Node,<fields>, one line per printer, each line ended by CR LF.
CsvHeader(fields) ==
  JoinWith(<<<<"N","o","d","e">>>> \o [i \in 1..Len(fields) |-> FieldChars(fields[i])], ",")

CsvRow(row, fields, kind) ==
  LET shown == IF kind = "cut" THEN <<fields[1]>> ELSE fields
  IN JoinWith(<<row.node>> \o [i \in 1..Len(shown) |-> FieldValue(row, shown[i])], ",")

WmicCsv(reg, fields, kind) ==
  LET lines == <<<<>>, CsvHeader(fields)>> \o [i \in 1..Len(reg) |-> CsvRow(reg[i], fields, kind)]
  IN Concat([i \in 1..Len(lines) |-> lines[i] \o <<"\r", "\n">>])

\* execSync(`wmic ...`, {timeout: 5000}): throws, or returns the text.
ExecWmic(reg, fields, kind) ==
  [err |-> kind = "error",
   text |-> IF kind = "error" THEN <<>> ELSE WmicCsv(RegistryRows(reg), fields, kind)]

\* ------------------------------------------------------------- Discovery

\* A call's outcome: it returns val, or it throws.
Returned(v) == [thrown |-> FALSE, val |-> v]
Thrown == [thrown |-> TRUE, val |-> Null]

MinOf(S) == CHOOSE x \in S : \A y \in S : x <= y

\* The try block of querySewooPrinter: execSync, the scan for the first line
\* holding SEWOO, the column by index (an index past the line's columns is
\* undefined, and .replace on it throws).
QueryTry(exec, targetIndex, cleanAlphaNum) ==
  IF exec.err THEN Thrown
  ELSE
    LET lines == Split(Trim(exec.text), "\n")
        hits == {i \in 1..Len(lines) : Includes(ToUpperCase(lines[i]), SEWOO)}
    IN IF hits = {} THEN Returned(Null)
       ELSE
         LET columns == Split(lines[MinOf(hits)], ",")
         IN IF targetIndex + 1 > Len(columns) THEN Thrown
            ELSE IF cleanAlphaNum
              THEN Returned(OrNull(StripNonAlphaNum(columns[targetIndex + 1])))
              ELSE Returned(OrNull(Trim(StripCR(columns[targetIndex + 1]))))

\* querySewooPrinter with its catch removed: the failure propagates.
QuerySewooPrinterNoCatch(exec, targetIndex, cleanAlphaNum) ==
  QueryTry(exec, targetIndex, cleanAlphaNum)

\* querySewooPrinter: catch (error) { return null }
querySewooPrinter(exec, targetIndex, cleanAlphaNum) ==
  LET r == QueryTry(exec, targetIndex, cleanAlphaNum)
  IN IF r.thrown THEN Returned(Null) ELSE r

findPrinterPort(exec) == querySewooPrinter(exec, 2, TRUE)
findPrinterName(exec) == querySewooPrinter(exec, 1, FALSE)

\* What each Discovery call returns, by the registry's state and by how the
\* wmic invocation ends: the three calls the module makes, tabulated.
PortResults ==
  [reg \in Registries, k \in ExecKinds |-> findPrinterPort(ExecWmic(reg, FieldsPort, k))]
NameResults ==
  [reg \in Registries, k \in ExecKinds |-> findPrinterName(ExecWmic(reg, FieldsName, k))]
OfflineResults ==
  [reg \in Registries, k \in ExecKinds |->
     querySewooPrinter(ExecWmic(reg, FieldsOffline, k), 2, TRUE)]


\* ------------------------------------------------------- the receipt text

\* A string's elements are its UTF-16 units, so Len is .length.  A unit
\* outside ASCII is written by its number: "U+C6D0"; a character above U+FFFF
\* is its two surrogate units: U+1F34E is "U+D83C", "U+DF4E".
\* The code points of U+AC00..U+D7A3 that occur in the model's texts:
HangulSyllables == {"U+AC00", "U+AC10", "U+AC1D", "U+ACA9", "U+ACC4", "U+ACE0", "U+ACFC", "U+ADE4", "U+AE38", "U+B2EC", "U+B3C4", "U+B3D9", "U+B7C9", "U+B9DB", "U+BA85", "U+BB38", "U+BB3C", "U+BC30", "U+BCF4", "U+BE44", "U+C0AC", "U+C0C1", "U+C11C", "U+C120", "U+C138", "U+C18C", "U+C218", "U+C2DC", "U+C57D", "U+C608", "U+C6B8", "U+C6D0", "U+C77C", "U+C815", "U+C81C", "U+C8FC", "U+C9D1", "U+CC29", "U+CD1D", "U+D2B8", "U+D2B9", "U+D488", "U+D569", "U+D638", "U+D64D"}

\* (text.match(/[가-힣]/g) || []).length
KoreanCount(text) == Len(SelectSeq(text, LAMBDA c : c \in HangulSyllables))

RECURSIVE Repeat(_, _)
Repeat(c, n) == IF n <= 0 THEN <<>> ELSE <<c>> \o Repeat(c, n - 1)

\* String(n) for an integer n >= 0
RECURSIVE Digits(_)
Digits(n) == IF n < 10 THEN <<DigitChars[n + 1]>> ELSE Digits(n \div 10) \o <<DigitChars[(n % 10) + 1]>>

\* s.padStart(n, c)
PadStart(s, n, c) == Repeat(c, n - Len(s)) \o s

\* Grouping of an integer's digits in threes, as toLocaleString('ko-KR') does
RECURSIVE GroupDigits(_)
GroupDigits(ds) ==
  IF Len(ds) <= 3 THEN ds
  ELSE GroupDigits(SubSeq(ds, 1, Len(ds) - 3)) \o <<",">> \o SubSeq(ds, Len(ds) - 2, Len(ds))

RECURSIVE StripTrailingZeros(_)
StripTrailingZeros(ds) ==
  IF ds # <<>> /\ ds[Len(ds)] = "0" THEN StripTrailingZeros(SubSeq(ds, 1, Len(ds) - 1)) ELSE ds

\* (a / q).toLocaleString('ko-KR') for integers a >= 0, q >= 0: grouped
\* integer part, at most three fraction digits, rounded; a / 0 is Infinity
\* (or NaN for 0 / 0).
LocaleQuotient(a, q) ==
  IF q = 0 THEN (IF a = 0 THEN <<"N","a","N">> ELSE <<"U+221E">>)
  ELSE
    LET ip == a \div q
        f == (2000 * (a % q) + q) \div (2 * q)
    IN IF f = 0 THEN GroupDigits(Digits(ip))
       ELSE IF f = 1000 THEN GroupDigits(Digits(ip + 1))
       ELSE GroupDigits(Digits(ip)) \o <<".">> \o StripTrailingZeros(PadStart(Digits(f), 3, "0"))

\* amount.toLocaleString('ko-KR') for an integer amount
LocaleInt(n) == LocaleQuotient(n, 1)

formatAmount(amount) == LocaleInt(amount) \o <<"U+C6D0">>

formatRow(label, value, width) ==
  LET labelWidth == Len(label) + KoreanCount(label)
      valueWidth == Len(value) + KoreanCount(value)
      d == width - labelWidth - valueWidth
      padding == IF d > 0 THEN d ELSE 0
  IN label \o Repeat(" ", padding) \o value

\* alignText(text, align = 'left', width = 32)
alignText(text, align, width) ==
  LET koreanCount == KoreanCount(text)
      actualWidth == Len(text) + koreanCount
      padding == width - actualWidth
      leftPad == padding \div 2
      rightPad == padding - leftPad
  IN IF actualWidth >= width THEN text
     ELSE IF align = "center" THEN Repeat(" ", leftPad) \o text \o Repeat(" ", rightPad)
     ELSE IF align = "right" THEN Repeat(" ", padding) \o text
     ELSE text \o Repeat(" ", padding)

\* formatPrice(amount, width = 15)
formatPrice(amount, width) ==
  LET formatted == formatAmount(amount)
      d == width - Len(formatted)
      padding == IF d > 0 THEN d ELSE 0
  IN Repeat(" ", padding) \o formatted

\* A number field that is null or undefined in the request body
NoNum == -1

\* ------------------------------------------------------------ buildReceipt

Cmd(name) == [op |-> name, on |-> FALSE, text |-> <<>>]
Bold(b) == [op |-> "bold", on |-> b, text |-> <<>>]
Println(t) == [op |-> "println", on |-> FALSE, text |-> t]

Pad2(n) == PadStart(Digits(n), 2, "0")

\* The test read as truthiness: hour 0 taken for no schedule.
isScheduledTruthy(data) == data.scheduledDeliveryHour \notin {NoNum, 0}

\* const isScheduled = scheduledDeliveryHour != null
isScheduled(data) == data.scheduledDeliveryHour # NoNum

orderDate(d) ==
  Digits(d.year) \o <<"-">> \o Pad2(d.month) \o <<"-">> \o Pad2(d.date) \o <<" ">>
    \o Pad2(d.hours) \o <<":">> \o Pad2(d.minutes) \o <<":">> \o Pad2(d.seconds)

deliveryTime(data) ==
  (IF data.deliveryHour = NoNum THEN <<"n","u","l","l">> ELSE Pad2(data.deliveryHour))
    \o <<":">>
    \o (IF data.deliveryMinute = NoNum THEN <<"n","u","l","l">> ELSE Pad2(data.deliveryMinute))

scheduledTime(data) ==
  Pad2(data.scheduledDeliveryHour) \o <<":">>
    \o Pad2(IF data.scheduledDeliveryMinute = NoNum THEN 0 ELSE data.scheduledDeliveryMinute)

HeaderBlock ==
  << Cmd("alignCenter"), Cmd("drawLine"), Cmd("setTextQuadArea"), Bold(TRUE),
     Println(<<"U+ACFC","U+C77C","U+B9DB","U+C9D1","1","9","9","5">>), Bold(FALSE), Cmd("setTextNormal"), Cmd("alignLeft"),
     Cmd("drawLine") >>

ScheduledBanner(data) ==
  IF isScheduled(data)
    THEN << Cmd("alignCenter"), Cmd("setTextDoubleHeight"), Bold(TRUE),
            Println(<<"*","*"," ">> \o scheduledTime(data) \o <<" ","U+C608","U+C57D","U+BC30","U+B2EC"," ","*","*">>),
            Bold(FALSE), Cmd("setTextNormal"), Cmd("alignLeft") >>
    ELSE <<>>

orderLabel(data) ==
  IF data.displayCode # Null /\ data.displayCode # <<>>
    THEN data.displayCode
    ELSE <<"#">> \o Digits(data.orderId)

DeliveryLine(data) ==
  IF isScheduled(data)
    THEN << Bold(TRUE), Println(<<"U+B3C4","U+CC29","U+C608","U+C815",":"," ">> \o scheduledTime(data)), Bold(FALSE) >>
  ELSE IF data.deliveryHour # NoNum /\ data.deliveryMinute # NoNum
    THEN << Bold(TRUE), Println(<<"U+BC30","U+B2EC","U+C608","U+C815",":"," ">> \o deliveryTime(data)), Bold(FALSE) >>
  ELSE <<>>

Dashes == Println(Repeat("-", 32))

OrderBlock(data) ==
  << Println(<<"[","U+C8FC","U+BB38","U+C815","U+BCF4","]">>), Cmd("setTextDoubleHeight"), Bold(TRUE),
     Println(orderLabel(data)), Bold(FALSE), Cmd("setTextNormal"),
     Println(<<"U+C8FC","U+BB38","U+C77C","U+C2DC",":"," ">> \o orderDate(data.paidAt)) >>
    \o DeliveryLine(data) \o << Dashes >>

CustomerBlock(data) ==
  << Println(<<"[","U+ACE0","U+AC1D","U+C815","U+BCF4","]">>), Cmd("setTextDoubleHeight"), Bold(TRUE),
     Println(data.buyerName \o <<" ","/"," ">> \o data.phone),
     Bold(FALSE), Cmd("setTextNormal"), Cmd("newLine") >>

\* The address block without its closing bold(false) and setTextNormal().
AddressBlockNoReset(data) ==
  << Println(<<"[","U+BC30","U+B2EC","U+C8FC","U+C18C","]">>), Cmd("setTextDoubleHeight"), Bold(TRUE), Println(data.address1) >>
    \o (IF data.address2 # Null /\ data.address2 # <<>> THEN << Println(data.address2) >> ELSE <<>>)
    \o << Dashes >>

AddressBlock(data) ==
  << Println(<<"[","U+BC30","U+B2EC","U+C8FC","U+C18C","]">>), Cmd("setTextDoubleHeight"), Bold(TRUE), Println(data.address1) >>
    \o (IF data.address2 # Null /\ data.address2 # <<>> THEN << Println(data.address2) >> ELSE <<>>)
    \o << Bold(FALSE), Cmd("setTextNormal"), Dashes >>

ItemRow(item) ==
  LET nameMaxWidth == 14
      nameActualWidth == Len(item.productName) + KoreanCount(item.productName)
      truncatedName ==
        IF nameActualWidth > nameMaxWidth
          THEN SubSeq(item.productName, 1, IF Len(item.productName) < 7 THEN Len(item.productName) ELSE 7)
          ELSE item.productName
      namePadding == 14 - (Len(truncatedName) + KoreanCount(truncatedName))
      nameField == truncatedName \o Repeat(" ", namePadding)
      qtyField == PadStart(Digits(item.quantity), 3, " ")
      unitField == PadStart(LocaleQuotient(item.amount, item.quantity), 7, " ")
      amtField == PadStart(LocaleInt(item.amount), 8, " ")
  IN Println(nameField \o qtyField \o unitField \o amtField)

ItemTable(data) ==
  << Println(<<"U+C0C1","U+D488","U+BA85"," "," "," "," "," "," "," ","U+C218","U+B7C9"," "," "," ","U+AC00","U+ACA9"," "," "," "," ","U+CD1D","U+D569">>) >>
    \o [i \in 1..Len(data.items) |-> ItemRow(data.items[i])]
    \o << Dashes >>

TotalsBlock(data) ==
  LET totalAmount == data.totalProductAmount + data.deliveryFee
  IN << Bold(TRUE),
        Println(formatRow(<<"U+C0C1","U+D488","U+D569","U+ACC4",":">>, formatAmount(data.totalProductAmount), 32)),
        Println(formatRow(<<"U+BC30","U+B2EC","U+BE44","(">> \o Digits(data.distanceKm) \o <<"k","m",")",":">>,
                          formatAmount(data.deliveryFee), 32)),
        Bold(FALSE), Cmd("drawLine"),
        Cmd("alignCenter"), Cmd("setTextQuadArea"), Bold(TRUE),
        Println(formatRow(<<"U+D569","U+ACC4",":">>, formatAmount(totalAmount), 16)),
        Bold(FALSE), Cmd("setTextNormal"), Cmd("alignLeft"), Cmd("drawLine") >>

Trailer == << Cmd("newLine"), Cmd("newLine"), Cmd("newLine"), Cmd("cut") >>

\* The blocks in the order of the function's header comment: address last.
BuildReceiptAddressLast(data) ==
  HeaderBlock \o ScheduledBanner(data) \o OrderBlock(data) \o CustomerBlock(data)
    \o ItemTable(data) \o TotalsBlock(data) \o AddressBlock(data) \o Trailer

\* The directives buildReceipt(printer, data) appends to the printer's buffer.
BuildReceipt(data) ==
  HeaderBlock \o ScheduledBanner(data) \o OrderBlock(data) \o CustomerBlock(data)
    \o AddressBlock(data) \o ItemTable(data) \o TotalsBlock(data) \o Trailer

\* ------------------------------------------------------- request bodies

PaidAt == [year |-> 2026, month |-> 2, date |-> 12, hours |-> 2, minutes |-> 8, seconds |-> 3]

Item(name, quantity, amount) == [productName |-> name, quantity |-> quantity, amount |-> amount]

ItemApple == Item(<<"U+C0AC","U+ACFC","U+C138","U+D2B8">>, 2, 20000)
ItemLongName == Item(<<"U+C81C","U+C8FC","U+AC10","U+ADE4","U+C120","U+BB3C","U+C138","U+D2B8","U+D2B9">>, 3, 10000)
\* Seven syllables; fifteen letters; a letter and eight syllables.
ItemSevenSyllables == Item(<<"U+C81C","U+C8FC","U+AC10","U+ADE4","U+C120","U+BB3C","U+C138">>, 10, 15000)
ItemFifteenLetters == Item(<<"A","B","C","D","E","F","G","H","I","J","K","L","M","N","O">>, 999, 999000)
ItemLetterSyllables == Item(<<"A","U+C81C","U+C8FC","U+AC10","U+ADE4","U+C120","U+BB3C","U+C138","U+D2B8">>, 1, 950)
\* Names that open with U+1F34E: before six syllables and a letter; before
\* two syllables.
ItemAppleSignLong == Item(<<"U+D83C","U+DF4E","U+C81C","U+C8FC","U+AC10","U+ADE4","U+C120","U+BB3C","A">>, 1, 5000)
ItemAppleSignShort == Item(<<"U+D83C","U+DF4E","U+C0AC","U+ACFC">>, 2, 20000)
\* A quantity of four digits; an amount of nine characters.
ItemThousand == Item(<<"B","a","g">>, 1000, 1000)
ItemMillion == Item(<<"B","o","x">>, 1, 1234567)
\* The item lists of the documents below.
ItemLists ==
  { <<>>, <<ItemApple>>, <<ItemApple, ItemLongName>>,
    <<ItemSevenSyllables, ItemFifteenLetters, ItemLetterSyllables>>,
    <<ItemAppleSignLong>>, <<ItemAppleSignShort, ItemThousand, ItemMillion>> }

\* A plain delivery at 18:30 with both address lines.
BodyPlain ==
  [orderId |-> 7, displayCode |-> Null, paidAt |-> PaidAt,
   deliveryHour |-> 18, deliveryMinute |-> 30,
   buyerName |-> <<"U+D64D","U+AE38","U+B3D9">>, phone |-> <<"0","1","0","-","1","2","3","4","-","5","6","7","8">>,
   items |-> <<ItemApple>>, itemsIsArray |-> TRUE,
   totalProductAmount |-> 20000, deliveryFee |-> 3000,
   distanceKm |-> 2, address1 |-> <<"U+C11C","U+C6B8"," ","1">>, address2 |-> <<"1","0","1","U+D638">>,
   scheduledDeliveryHour |-> NoNum, scheduledDeliveryMinute |-> NoNum,
   missing |-> FALSE]

\* A scheduled delivery at 15:05 with a display code and no second address line.
BodyScheduled ==
  [BodyPlain EXCEPT !.orderId = 8, !.displayCode = <<"A","-","1","2">>,
                    !.items = <<ItemApple, ItemLongName>>, !.totalProductAmount = 30000,
                    !.address2 = Null,
                    !.scheduledDeliveryHour = 15, !.scheduledDeliveryMinute = 5]

\* A body whose item list is an empty array.
BodyNoItems == [BodyPlain EXCEPT !.orderId = 9, !.items = <<>>, !.totalProductAmount = 0]

\* A body in which a required field is undefined or null.
BodyMissingField == [BodyPlain EXCEPT !.orderId = 10, !.missing = TRUE]

\* A body whose items field is not an array (a string, an object).
BodyItemsNotArray == [BodyPlain EXCEPT !.orderId = 11, !.items = <<>>, !.itemsIsArray = FALSE]

\* The request bodies the model draws from, by name.
Bodies == {"plain", "scheduled", "noitems", "missing", "notarray"}

Data(b) ==
  CASE b = "plain" -> BodyPlain
    [] b = "scheduled" -> BodyScheduled
    [] b = "noitems" -> BodyNoItems
    [] b = "missing" -> BodyMissingField
    [] b = "notarray" -> BodyItemsNotArray

\* BuildReceipt of each body, tabulated.
Receipts == [b \in Bodies |-> BuildReceipt(Data(b))]

\* A command buffer is kept as the list of the bodies whose receipts were
\* appended to it since it was last empty; these are its directives.
Directives(buf) == Concat([i \in 1..Len(buf) |-> Receipts[buf[i]]])


\* ------------------------------------------------------ the printer module

VARIABLES
  variant,            \* which printer module is deployed: "spooler" or "direct"
  registry,           \* the OS printer registry, as wmic would list it now
  printerInstance,    \* let printerInstance: 0 is null, else the instance's id
  sewooPrinterName,   \* let sewooPrinterName
  rawPrintScriptPath, \* let rawPrintScriptPath
  iface,              \* iface[i]: the interface instance i was constructed with
  buffer,             \* buffer[i]: the command buffer of instance i (<<>>: null)
  tmpFiles,           \* staged receipt-*.bin files now in the temp directory
  held,               \* API caller: the instance its last initPrinter returned
  last,               \* API caller: the last call made and what it returned
  exec,               \* API caller: the call whose execSync child is running:
                      \*   the function, the step it is at, children killed
  listened,           \* server: the listen callback has run
  pc,                 \* server: pc[r], where the handler of request r stands
  body,               \* server: body[r], the request body of r
  printer,            \* server: printer[r], const printer of r's handler
  isConnected,        \* server: isConnected[r], const isConnected of r's handler
  failed,             \* server: failed[r], r's printReceipt threw
  handed,             \* server: handed[r], the buffer r's printReceipt took
  inflight,           \* server: the requests whose transmission is under way
  turn,               \* server: the request whose continuations run next (0: none)
  resp,               \* server: resp[r], the HTTP status answered to r (0: none)
  proc                \* server: the process: running, closing (shutdown() has
                      \*   run), or exited with a code; lingering: a client
                      \*   keeps a connection open past the 10 s; released:
                      \*   closePrinter() was called by the shutdown

modVars == <<printerInstance, sewooPrinterName, rawPrintScriptPath, iface, buffer, tmpFiles>>
apiVars == <<held, last, exec>>
srvVars == <<listened, pc, body, printer, isConnected, failed, handed, inflight, turn, resp, proc>>
vars == <<variant, registry, modVars, apiVars, srvVars>>

Variants == {"spooler", "direct"}
Reqs == 1..NumReq

\* join(tmpdir(), 'onuljang-raw-print.ps1')
ScriptPath == <<"o","n","u","l","j","a","n","g","-","r","a","w","-","p","r","i","n","t",".","p","s","1">>

\* The module-level state, as one value the operations map to a new one.
Mod ==
  [printerInstance |-> printerInstance, sewooPrinterName |-> sewooPrinterName,
   rawPrintScriptPath |-> rawPrintScriptPath, iface |-> iface, buffer |-> buffer,
   tmpFiles |-> tmpFiles]

SetMod(M) ==
  /\ printerInstance' = M.printerInstance
  /\ sewooPrinterName' = M.sewooPrinterName
  /\ rawPrintScriptPath' = M.rawPrintScriptPath
  /\ iface' = M.iface
  /\ buffer' = M.buffer
  /\ tmpFiles' = M.tmpFiles

\* A string in a condition: null and '' are falsy.
Truthy(s) == s # Null /\ s # <<>>

\* new ThermalPrinter({interface: path, ...}): a new instance, empty buffer.
NewPrinter(M, path) ==
  [M EXCEPT !.printerInstance = Len(M.iface) + 1,
            !.iface = Append(@, path),
            !.buffer = Append(@, <<>>)]

\* initPrinter of the spooler variant with the cache test left out.
initPrinterSpoolerNoCache(M, port, name) ==
  LET M1 == [M EXCEPT !.sewooPrinterName = name.val]
      M2 == NewPrinter(M1, DevicePrefix \o (IF Truthy(port.val) THEN port.val ELSE LPT1))
  IN [M |-> M2, ret |-> M2.printerInstance, thrown |-> FALSE, queries |-> 2,
      port |-> port.val, name |-> name.val]

\* initPrinter, spooler variant.  port, name: what findPrinterPort() and
\* findPrinterName() return (or throw) if they are called now.
initPrinterSpooler(M, port, name) ==
  IF M.printerInstance # 0
    THEN [M |-> M, ret |-> M.printerInstance, thrown |-> FALSE, queries |-> 0,
          port |-> Null, name |-> Null]
  ELSE
    IF port.thrown
         THEN [M |-> M, ret |-> 0, thrown |-> TRUE, queries |-> 1,
               port |-> Null, name |-> Null]
       ELSE IF name.thrown
         THEN [M |-> M, ret |-> 0, thrown |-> TRUE, queries |-> 2,
               port |-> port.val, name |-> Null]
       ELSE
         LET M1 == [M EXCEPT !.sewooPrinterName = name.val]
             interfacePath == DevicePrefix \o (IF Truthy(port.val) THEN port.val ELSE LPT1)
             M2 == NewPrinter(M1, interfacePath)
         IN [M |-> M2, ret |-> M2.printerInstance, thrown |-> FALSE, queries |-> 2,
             port |-> port.val, name |-> name.val]

\* initPrinter, direct variant (off Windows): no Discovery.
initPrinterDirect(M) ==
  IF M.printerInstance # 0
    THEN [M |-> M, ret |-> M.printerInstance, thrown |-> FALSE, queries |-> 0,
          port |-> Null, name |-> Null]
    ELSE LET M2 == NewPrinter(M, UsbLp0)
         IN [M |-> M2, ret |-> M2.printerInstance, thrown |-> FALSE, queries |-> 0,
             port |-> Null, name |-> Null]

\* checkPrinterStatus of the spooler variant reading the flag backwards.
checkPrinterStatusSpoolerFlagInverted(M, port, name, offline, p) ==
  LET i == initPrinterSpooler(M, port, name)
  IN IF i.thrown \/ offline.thrown \/ (~Truthy(offline.val) /\ p.thrown)
       THEN [M |-> i.M, ret |-> FALSE, thrown |-> FALSE]
       ELSE [M |-> i.M, thrown |-> FALSE,
             ret |-> IF Truthy(offline.val) THEN ToUpperCase(offline.val) # FALSE_TEXT
                                            ELSE p.val # Null]

\* checkPrinterStatus, spooler variant.  port, name: as in initPrinter;
\* offline: what querySewooPrinter(['Name', 'WorkOffline'], 2) returns;
\* p: what the findPrinterPort() of the last line returns if it is called.
checkPrinterStatusSpooler(M, port, name, offline, p) ==
  LET i == initPrinterSpooler(M, port, name)
  IN IF i.thrown THEN [M |-> i.M, ret |-> FALSE, thrown |-> FALSE]
     ELSE IF offline.thrown THEN [M |-> i.M, ret |-> FALSE, thrown |-> FALSE]
     ELSE IF Truthy(offline.val)
       THEN [M |-> i.M, ret |-> (ToUpperCase(offline.val) = FALSE_TEXT), thrown |-> FALSE]
     ELSE IF p.thrown THEN [M |-> i.M, ret |-> FALSE, thrown |-> FALSE]
     ELSE [M |-> i.M, ret |-> (p.val # Null), thrown |-> FALSE]

\* How printer.isPrinterConnected() ends in the direct variant.
ConnKinds == {"true", "false", "reject"}

\* checkPrinterStatus, direct variant.
checkPrinterStatusDirect(M, conn) ==
  LET i == initPrinterDirect(M)
  IN [M |-> i.M, ret |-> (conn = "true"), thrown |-> FALSE]

\* What the file system and the spooler do during one printReceipt:
\*   scriptExists  existsSync(rawPrintScriptPath)
\*   scriptWrite   writeFileSync of the script succeeds
\*   stage         writeFileSync(tmpBin, buffer): "ok"; "nofile", it throws
\*                 before the file exists; "partial", it throws after creating it
\*   exec          the PowerShell submission: "ok", "exit1" (Send returned
\*                 false), "timeout" (killed after 10 s)
\*   unlink        unlinkSync(tmpBin) succeeds
\* One environment stands for all that lead the call the same way: a script
\* that is missing but can be written counts as one that is there, and what
\* would follow a step that throws is not drawn.
PrintEnvs ==
  {e \in [scriptExists : BOOLEAN, scriptWrite : BOOLEAN,
          stage : {"ok", "nofile", "partial"},
          exec : {"ok", "exit1", "timeout"}, unlink : BOOLEAN] :
     /\ e.scriptExists = e.scriptWrite
     /\ (~e.scriptWrite \/ e.stage # "ok") => (e.exec = "ok" /\ e.unlink)
     /\ ~e.scriptWrite => e.stage = "ok"}

\* What winspool.Drv does during one RawPrinterHelper.Send: the first call
\* that returns false ("open", "startDoc", "startPage", "write"), or none;
\* and, when WritePrinter returns true, whether it took every byte ("all") or
\* fewer (`written` below data.Length).  What follows a call that fails is
\* not drawn.
SendEnvs ==
  {e \in [fails : {"open", "startDoc", "startPage", "write", "none"},
          written : {"none", "part", "all"}] :
     /\ e.fails # "none" => e.written = "none"
     /\ e.fails = "none" => e.written # "none"}

\* Send with the page ended on the path where StartPagePrinter failed.
SendEndsUnstartedPage(e) ==
  IF e.fails = "startPage"
    THEN [ok |-> FALSE, written |-> "none",
          calls |-> <<"OpenPrinter", "StartDocPrinter", "StartPagePrinter",
                      "EndPagePrinter", "EndDocPrinter", "ClosePrinter">>]
    ELSE [ok |-> e.fails = "none", written |-> e.written,
          calls |-> IF e.fails = "open" THEN <<"OpenPrinter">>
                    ELSE IF e.fails = "startDoc"
                      THEN <<"OpenPrinter", "StartDocPrinter", "ClosePrinter">>
                    ELSE <<"OpenPrinter", "StartDocPrinter", "StartPagePrinter",
                           "AllocCoTaskMem", "WritePrinter", "FreeCoTaskMem",
                           "EndPagePrinter", "EndDocPrinter", "ClosePrinter">>]

\* RawPrinterHelper.Send(name, data): the winspool.Drv and Marshal calls it
\* makes, in order, what it returns, and how much of data the spooler took.
Send(e) ==
  IF e.fails = "open"
    THEN [ok |-> FALSE, written |-> "none", calls |-> <<"OpenPrinter">>]
  ELSE IF e.fails = "startDoc"
    THEN [ok |-> FALSE, written |-> "none",
          calls |-> <<"OpenPrinter", "StartDocPrinter", "ClosePrinter">>]
  ELSE IF e.fails = "startPage"
    THEN [ok |-> FALSE, written |-> "none",
          calls |-> <<"OpenPrinter", "StartDocPrinter", "StartPagePrinter",
                      "EndDocPrinter", "ClosePrinter">>]
  ELSE [ok |-> e.fails # "write", written |-> e.written,
        calls |-> <<"OpenPrinter", "StartDocPrinter", "StartPagePrinter",
                    "AllocCoTaskMem", "WritePrinter", "FreeCoTaskMem",
                    "EndPagePrinter", "EndDocPrinter", "ClosePrinter">>]

\* The script's last statement: exit 1 when Send returned false.
RawPrintScriptExit(sent) == IF sent.ok THEN 0 ELSE 1

\* execSync of the script: it throws when the process is killed at the 10 s
\* timeout or exits with a code other than 0.
ExecOfScript(timedOut, exitCode) ==
  IF timedOut THEN "timeout" ELSE IF exitCode = 0 THEN "ok" ELSE "exit1"

\* In the direct variant only the result of execute() is drawn.
ExecuteEnvs == {e \in PrintEnvs : e.scriptWrite /\ e.stage = "ok" /\ e.unlink /\ e.exec # "timeout"}

\* The name expression with the fallback left out.
PrinterNameForNoDefault(cached) == cached

\* const name = sewooPrinterName || 'SEWOO SLK-TS 100'
PrinterNameFor(cached) == IF Truthy(cached) THEN cached ELSE DefaultPrinterName

\* The buffer cleared whatever the submission did.
BufferAfterSubmitAlwaysClear(buf, ok) == <<>>

\* The buffer after the submission: printer.clear() on success only.
BufferAfterSubmit(buf, ok) == IF ok THEN <<>> ELSE buf

\* printReceipt, spooler variant, on instance p.  `submitted`: the call got
\* as far as the submission; `name`: the device name it computed; `handed`:
\* the buffer it read with getBuffer().
printReceiptSpooler(M, p, env) ==
  LET buf == M.buffer[p]
      none == [M |-> M, thrown |-> TRUE, submitted |-> FALSE, name |-> Null, handed |-> buf]
  IN IF buf = <<>> THEN none
     ELSE
       LET name == PrinterNameFor(M.sewooPrinterName)
           cachedScript == M.rawPrintScriptPath # Null /\ env.scriptExists
           M1 == IF cachedScript THEN M ELSE [M EXCEPT !.rawPrintScriptPath = ScriptPath]
       IN IF ~cachedScript /\ ~env.scriptWrite THEN [none EXCEPT !.M = M1]
          ELSE IF env.stage = "nofile" THEN [none EXCEPT !.M = M1]
          ELSE IF env.stage = "partial"
            THEN [none EXCEPT !.M = [M1 EXCEPT !.tmpFiles = @ + 1]]
          ELSE
            LET ok == env.exec = "ok"
                M2 == [M1 EXCEPT !.buffer[p] = BufferAfterSubmit(@, ok),
                                 !.tmpFiles = IF env.unlink THEN @ ELSE @ + 1]
            IN [M |-> M2, thrown |-> ~ok, submitted |-> TRUE, name |-> name, handed |-> buf]

\* printReceipt, direct variant: await printer.execute(); the buffer is not
\* cleared by this module.
printReceiptDirect(M, p, ok) ==
  [M |-> M, thrown |-> ~ok, submitted |-> TRUE, name |-> Null, handed |-> M.buffer[p]]

\* closePrinter
closePrinter(M) ==
  IF M.printerInstance # 0 THEN [M EXCEPT !.printerInstance = 0] ELSE M

\* buildReceipt(printer, data): every directive of BuildReceipt(data) is
\* appended to the buffer of the instance passed in.
buildReceipt(M, p, b) == [M EXCEPT !.buffer[p] = Append(@, b)]

\* ---------------------------------------------------------------- Init

Init ==
  /\ variant \in Variants
  /\ registry \in Registries
  /\ printerInstance = 0
  /\ sewooPrinterName = Null
  /\ rawPrintScriptPath = Null
  /\ iface = <<>>
  /\ buffer = <<>>
  /\ tmpFiles = 0
  /\ held = 0
  /\ last = [op |-> "none"]
  /\ exec = [fn |-> "none", step |-> "none", kills |-> 0]
  /\ listened = FALSE
  /\ pc = [r \in Reqs |-> "idle"]
  /\ body = [r \in Reqs |-> "plain"]
  /\ printer = [r \in Reqs |-> 0]
  /\ isConnected = [r \in Reqs |-> FALSE]
  /\ failed = [r \in Reqs |-> FALSE]
  /\ handed = [r \in Reqs |-> <<>>]
  /\ inflight = {}
  /\ turn = 0
  /\ resp = [r \in Reqs |-> 0]
  /\ proc = [phase |-> "running", code |-> 0, lingering |-> FALSE, released |-> FALSE]


\* ------------------------------------------- calls of the deployed module

\* The outcomes to draw for an external call: all of them when the call can
\* be reached, one when it cannot.
KindsIf(reached) == IF reached THEN ExecKinds ELSE {"ok"}
ConnsIf(reached) == IF reached THEN ConnKinds ELSE {"true"}
Discovers == variant = "spooler" /\ printerInstance = 0

\* initPrinter() of the deployed variant; k1, k2: how its wmic calls end.
initPrinter(M, k1, k2) ==
  IF variant = "spooler"
    THEN initPrinterSpooler(M, PortResults[registry, k1], NameResults[registry, k2])
    ELSE initPrinterDirect(M)

\* checkPrinterStatus() of the deployed variant.
checkPrinterStatus(M, k1, k2, k3, k4, conn) ==
  IF variant = "spooler"
    THEN checkPrinterStatusSpooler(M, PortResults[registry, k1], NameResults[registry, k2],
                                   OfflineResults[registry, k3], PortResults[registry, k4])
    ELSE checkPrinterStatusDirect(M, conn)

\* A call that may construct an instance has room to do so.
RoomFor == printerInstance # 0 \/ Len(iface) < MaxInst

\* Receipts built into a buffer and not yet cleared.
Pending(buf) == Len(buf)

\* ------------------------------------------------- the module's API, called
\* in any order by a caller that keeps the instance initPrinter returned

ApiInitPrinter ==
  /\ RoomFor
  /\ \E k1, k2 \in KindsIf(Discovers) :
       LET r == initPrinter(Mod, k1, k2)
       IN /\ SetMod(r.M)
          /\ held' = IF r.thrown THEN held ELSE r.ret
          /\ last' = [op |-> "initPrinter", thrown |-> r.thrown, ret |-> r.ret,
                      queries |-> r.queries, port |-> r.port, name |-> r.name,
                      k1 |-> k1, k2 |-> k2]
  /\ UNCHANGED <<variant, registry, exec, srvVars>>

ApiClosePrinter ==
  /\ Len(iface) < MaxInst
  /\ SetMod(closePrinter(Mod))
  /\ last' = [op |-> "closePrinter"]
  /\ UNCHANGED <<variant, registry, held, exec, srvVars>>

ApiCheckPrinterStatus ==
  /\ RoomFor
  /\ \E k1, k2 \in KindsIf(Discovers), k3, k4 \in KindsIf(variant = "spooler"),
        conn \in ConnsIf(variant = "direct") :
       LET r == checkPrinterStatus(Mod, k1, k2, k3, k4, conn)
       IN /\ SetMod(r.M)
          /\ last' = [op |-> "checkPrinterStatus", thrown |-> r.thrown, ret |-> r.ret,
                      k3 |-> k3, k4 |-> k4, conn |-> conn]
  /\ UNCHANGED <<variant, registry, held, exec, srvVars>>

ApiBodies == {"plain", "scheduled"}

ApiBuildReceipt ==
  /\ held # 0
  /\ Pending(buffer[held]) < MaxPending
  /\ \E b \in ApiBodies : SetMod(buildReceipt(Mod, held, b))
  /\ last' = [op |-> "buildReceipt"]
  /\ UNCHANGED <<variant, registry, held, exec, srvVars>>

ApiPrintReceipt ==
  /\ held # 0
  /\ \E env \in (IF variant = "spooler" THEN PrintEnvs ELSE ExecuteEnvs) :
       LET r == IF variant = "spooler"
                  THEN printReceiptSpooler(Mod, held, env)
                  ELSE printReceiptDirect(Mod, held, env.exec = "ok")
       IN /\ r.M.tmpFiles <= MaxFiles
          /\ SetMod(r.M)
          /\ last' = [op |-> "printReceipt", thrown |-> r.thrown,
                      submitted |-> r.submitted, name |-> r.name, env |-> env]
  /\ UNCHANGED <<variant, registry, held, exec, srvVars>>

\* The registry changes under the program: a printer is added, removed,
\* renamed, switched off.
ApiRegistryChange ==
  /\ \E reg \in Registries : reg # registry /\ registry' = reg
  /\ last' = [op |-> "registryChange"]
  /\ UNCHANGED <<variant, modVars, held, exec, srvVars>>

\* The Connection Manager and the status check under any caller.
NextConnection ==
  \/ ApiInitPrinter
  \/ ApiClosePrinter
  \/ ApiCheckPrinterStatus
  \/ ApiRegistryChange

SpecConnection == Init /\ [][NextConnection]_vars

\* The Transmission Pipeline under any caller that resolves the printer,
\* builds receipts into it and prints.  The registry is read by the first
\* initPrinter alone, so every registry state is an initial state here.
NextTransmission ==
  \/ ApiInitPrinter
  \/ ApiBuildReceipt
  \/ ApiPrintReceipt

SpecTransmission == Init /\ [][NextTransmission]_vars

\* The calls Send had made when the script's process ended: all of them
\* when it ended by itself, and any number of them, in order, when it was
\* killed at the timeout (before, during or after Send).
CallsMade(sent, timedOut) ==
  IF timedOut THEN {SubSeq(sent.calls, 1, n) : n \in 0..Len(sent.calls)}
  ELSE {sent.calls}

\* printReceipt of the spooler variant with the submission drawn call by
\* call: script and staged file in order, Send run against the spooler.
ApiSubmitReceipt ==
  /\ held # 0 /\ variant = "spooler"
  /\ \E e \in SendEnvs, timedOut \in BOOLEAN :
       LET sent == Send(e)
           env == [scriptExists |-> TRUE, scriptWrite |-> TRUE, stage |-> "ok",
                   exec |-> ExecOfScript(timedOut, RawPrintScriptExit(sent)),
                   unlink |-> TRUE]
           r == printReceiptSpooler(Mod, held, env)
       IN /\ SetMod(r.M)
          /\ \E calls \in CallsMade(sent, timedOut) :
               last' = [op |-> "submitReceipt", thrown |-> r.thrown,
                        submitted |-> r.submitted, timedOut |-> timedOut,
                        fails |-> e.fails,
                        written |-> IF "WritePrinter" \in Range(calls)
                                      THEN sent.written ELSE "none",
                        calls |-> calls,
                        returned |-> calls = sent.calls]
  /\ UNCHANGED <<variant, registry, held, exec, srvVars>>

NextSpooler ==
  \/ ApiInitPrinter
  \/ ApiBuildReceipt
  \/ ApiSubmitReceipt

SpecSpooler == Init /\ [][NextSpooler]_vars

\* ------------------------------------------------------------ the server
\* One action is one run of the event loop: the code from one await (or the
\* start of a callback) to the next.  In the spooler variant nothing the
\* handler awaits does I/O (execSync blocks), so its continuations are
\* microtasks and run before any other callback: `turn` keeps the others out.

\* app.listen's callback: checkPrinterStatus()
Listen ==
  /\ proc.phase # "exited"
  /\ ~listened
  /\ listened' = TRUE
  /\ \E k1, k2 \in KindsIf(Discovers), k3, k4 \in KindsIf(variant = "spooler"),
        conn \in ConnsIf(variant = "direct") :
       SetMod(checkPrinterStatus(Mod, k1, k2, k3, k4, conn).M)
  /\ UNCHANGED <<variant, registry, apiVars, proc, pc, body, printer, isConnected, failed,
                 handed, inflight, turn, resp>>

\* The handler answers r with status code and returns.
Answer(r, code) ==
  /\ resp' = [resp EXCEPT ![r] = code]
  /\ pc' = [pc EXCEPT ![r] = "done"]
  /\ turn' = 0

\* The validation with the test of the item list left out.
RejectedMissingOnly(data) == data.missing

\* The handler's validation: a required field undefined or null, or items
\* not an array or empty, is answered 400.
Rejected(data) == data.missing \/ ~data.itemsIsArray \/ data.items = <<>>

\* POST /print arrives with body b: validation, initPrinter(), and
\* checkPrinterStatus() up to its await.
PrintArrive(r, b) ==
  /\ proc.phase = "running"
  /\ listened /\ turn = 0
  /\ pc[r] = "idle"
  /\ (r > 1) => (pc[r - 1] # "idle")
  /\ body' = [body EXCEPT ![r] = b]
  /\ IF Rejected(Data(b))
       THEN /\ Answer(r, 400)
            /\ UNCHANGED <<modVars, printer, isConnected>>
       ELSE \E k1, k2 \in KindsIf(Discovers), k3, k4 \in KindsIf(variant = "spooler"),
               conn \in ConnsIf(variant = "direct") :
              LET i == initPrinter(Mod, k1, k2)
                  c == checkPrinterStatus(i.M, k1, k2, k3, k4, conn)
              IN IF i.thrown \/ c.thrown
                   THEN /\ SetMod(IF i.thrown THEN i.M ELSE c.M)
                        /\ Answer(r, 500)
                        /\ UNCHANGED <<printer, isConnected>>
                   ELSE /\ SetMod(c.M)
                        /\ printer' = [printer EXCEPT ![r] = i.ret]
                        /\ isConnected' = [isConnected EXCEPT ![r] = c.ret]
                        /\ pc' = [pc EXCEPT ![r] = "awaitStatus"]
                        /\ turn' = IF variant = "spooler" THEN r ELSE 0
                        /\ UNCHANGED resp
  /\ UNCHANGED <<variant, registry, apiVars, proc, listened, failed, handed, inflight>>

\* The test of the status with nothing ever refused.
RefusedNever(connected) == FALSE

\* if (!isConnected): the request is refused.
Refused(connected) == ~connected

\* After `await checkPrinterStatus()`: the not-connected answer, or
\* buildReceipt(printer, data) and printReceipt(printer) up to its await.
PrintResume(r) ==
  /\ proc.phase # "exited"
  /\ pc[r] = "awaitStatus"
  /\ variant = "spooler" => turn = r
  /\ IF Refused(isConnected[r])
       THEN /\ Answer(r, 500)
            /\ UNCHANGED <<modVars, failed, handed, inflight>>
       ELSE
         LET M1 == buildReceipt(Mod, printer[r], body[r])
         IN /\ pc' = [pc EXCEPT ![r] = "awaitPrint"]
            /\ UNCHANGED <<resp, turn>>
            /\ IF variant = "spooler"
                 THEN \E env \in PrintEnvs :
                        LET p == printReceiptSpooler(M1, printer[r], env)
                        IN /\ p.M.tmpFiles <= MaxFiles
                           /\ SetMod(p.M)
                           /\ handed' = [handed EXCEPT ![r] = p.handed]
                           /\ failed' = [failed EXCEPT ![r] = p.thrown]
                           /\ UNCHANGED inflight
                 ELSE /\ SetMod(M1)
                      /\ handed' = [handed EXCEPT ![r] = M1.buffer[printer[r]]]
                      /\ inflight' = inflight \cup {r}
                      /\ UNCHANGED failed
  /\ UNCHANGED <<variant, registry, apiVars, proc, listened, body, printer, isConnected>>

\* After `await printReceipt(printer)`: in the direct variant the write to
\* the device ends here, well or badly; then the answer.
PrintComplete(r) ==
  /\ proc.phase # "exited"
  /\ pc[r] = "awaitPrint"
  /\ variant = "spooler" => turn = r
  /\ IF variant = "spooler"
       THEN /\ Answer(r, IF failed[r] THEN 500 ELSE 200)
            /\ UNCHANGED <<modVars, failed, inflight>>
       ELSE \E ok \in BOOLEAN :
              LET p == printReceiptDirect(Mod, printer[r], ok)
              IN /\ SetMod(p.M)
                 /\ failed' = [failed EXCEPT ![r] = p.thrown]
                 /\ inflight' = inflight \ {r}
                 /\ Answer(r, IF p.thrown THEN 500 ELSE 200)
  /\ UNCHANGED <<variant, registry, apiVars, proc, listened, body, printer, isConnected, handed>>

RegistryChange ==
  /\ proc.phase # "exited"
  /\ \E reg \in Registries : reg # registry /\ registry' = reg
  /\ UNCHANGED <<variant, modVars, apiVars, srvVars>>

\* The server-side frame of the three shutdown steps.
ShutdownFrame ==
  UNCHANGED <<variant, registry, apiVars, listened, pc, body, printer, isConnected,
              failed, handed, inflight, turn, resp>>

\* A request whose handler has not answered yet.
InProgress == {r \in Reqs : pc[r] \notin {"idle", "done"}}

\* SIGTERM or SIGINT: shutdown() calls server.close(callback) and arms the
\* 10 s timer.  Signals are delivered between runs of the event loop.  A
\* client (the POS page polling /health over keep-alive) may or may not
\* hold a connection open for longer than the timer.
Signal ==
  /\ proc.phase = "running" /\ turn = 0
  /\ \E l \in BOOLEAN : proc' = [proc EXCEPT !.phase = "closing", !.lingering = l]
  /\ UNCHANGED modVars
  /\ ShutdownFrame

\* The callback of server.close, run once no request is in progress and no
\* connection is left: closePrinter(); process.exit(0).
ServerClosed ==
  /\ proc.phase = "closing" /\ turn = 0
  /\ InProgress = {} /\ ~proc.lingering
  /\ SetMod(closePrinter(Mod))
  /\ proc' = [proc EXCEPT !.phase = "exited", !.code = 0, !.released = TRUE]
  /\ ShutdownFrame

\* The 10 s timer of shutdown() fires before the server has closed (a
\* request still in progress, a client keeping its connection open):
\* process.exit(1).
ForcedExit ==
  /\ proc.phase = "closing" /\ turn = 0
  /\ InProgress # {} \/ proc.lingering
  /\ proc' = [proc EXCEPT !.phase = "exited", !.code = 1]
  /\ UNCHANGED modVars
  /\ ShutdownFrame

Next ==
  \/ Listen
  \/ \E r \in Reqs, b \in Bodies : PrintArrive(r, b)
  \/ \E r \in Reqs : PrintResume(r)
  \/ \E r \in Reqs : PrintComplete(r)
  \/ RegistryChange
  \/ Signal
  \/ ServerClosed
  \/ ForcedExit

Spec == Init /\ [][Next]_vars

\* ------------------------------------------- the external invocations
\* of the spooler variant, one child process at a time: execSync blocks
\* until its child exits or is killed at the timeout given in its options

\* timeout of the wmic calls, in ms
WmicTimeout == 5000
\* timeout of the PowerShell submission, in ms
SubmitTimeout == 10000

\* The steps of a call that run a child: the two queries of a first
\* initPrinter, the WorkOffline query and the port query of
\* checkPrinterStatus, the submission of printReceipt.
ExecSteps == {"port", "name", "offline", "port2", "submit"}

\* The timeout with that of the submission left out.
TimeoutOfNoSubmitBound(step) == IF step = "submit" THEN 0 ELSE WmicTimeout

\* The timeout option of the execSync at a step (0: none).
TimeoutOf(step) == IF step = "submit" THEN SubmitTimeout ELSE WmicTimeout

\* The first child a call runs ("return": none).  cached: an instance is
\* cached; data: the buffer holds data and the file is staged.
FirstStep(fn, cached, data) ==
  CASE fn = "initPrinter" -> IF cached THEN "return" ELSE "port"
    [] fn = "checkPrinterStatus" -> IF cached THEN "offline" ELSE "port"
    [] fn = "printReceipt" -> IF data THEN "submit" ELSE "return"

\* The step after a child ended; found: it exited with a value in its
\* output (a child that failed or was killed is caught as null, or, for
\* the submission, rethrown to the caller).
StepAfter(fn, step, found) ==
  CASE step = "port" -> "name"
    [] step = "name" -> IF fn = "checkPrinterStatus" THEN "offline" ELSE "return"
    [] step = "offline" -> IF found THEN "return" ELSE "port2"
    [] step = "port2" -> "return"
    [] step = "submit" -> "return"

ExecFns == {"initPrinter", "checkPrinterStatus", "printReceipt"}

\* The call moves on to `step`, or returns to its caller.
ExecGoes(fn, step, kills) ==
  IF step = "return"
    THEN /\ exec' = [fn |-> "none", step |-> "none", kills |-> 0]
         /\ last' = [op |-> "returned", fn |-> fn, kills |-> kills]
    ELSE /\ exec' = [fn |-> fn, step |-> step, kills |-> kills]
         /\ UNCHANGED last

ExecFrame == UNCHANGED <<variant, registry, modVars, held, srvVars>>

\* A caller calls one of the three functions.
ExecCall ==
  /\ variant = "spooler" /\ exec.fn = "none"
  /\ \E fn \in ExecFns, cached, data \in BOOLEAN :
       ExecGoes(fn, FirstStep(fn, cached, data), 0)
  /\ ExecFrame

\* The child exits by itself, well or badly.  Nothing makes it do so.
ExecExit ==
  /\ exec.fn # "none"
  /\ \E found \in BOOLEAN :
       ExecGoes(exec.fn, StepAfter(exec.fn, exec.step, found), exec.kills)
  /\ ExecFrame

\* The timeout of the running execSync elapses: the child is killed and
\* execSync throws.
ExecTimeout ==
  /\ exec.fn # "none"
  /\ TimeoutOf(exec.step) > 0
  /\ ExecGoes(exec.fn, StepAfter(exec.fn, exec.step, FALSE), exec.kills + 1)
  /\ ExecFrame

NextExternal ==
  \/ ExecCall
  \/ ExecExit
  \/ ExecTimeout

\* execSync enforces its timeout: a child that keeps running is killed.
SpecExternal == Init /\ [][NextExternal]_vars /\ WF_vars(ExecTimeout)

\* ------------------------------------------------- the layout functions,
\* called once with any text, mode, width and amount of the sets below
\* (they are pure: one call tells nothing to the next)

TextApple == <<"U+D83C", "U+DF4E">>
TextHangul == <<"U+ACFC", "U+C77C">>
Texts ==
  { <<>>, <<"a">>, <<"a", "b", "c">>, <<"1", ",", "0">>, TextHangul,
    <<"A">> \o TextHangul, <<"U+C6D0">>, TextApple, TextApple \o <<"x">>,
    <<"a", "b", "c", "d", "e", "f">> }
Aligns == {"left", "center", "right"}
Widths == {0, 1, 2, 3, 4, 5, 6, 7, 9, 32}
Amounts == {0, 7, 950, 1000, 15900, 1234567}
PriceWidths == {0, 2, 6, 7, 10, 15}

CallAlignText ==
  /\ last.op = "none"
  /\ \E t \in Texts, a \in Aligns, w \in Widths :
       last' = [op |-> "alignText", text |-> t, align |-> a, width |-> w,
                out |-> alignText(t, a, w)]
  /\ UNCHANGED <<variant, registry, modVars, held, exec, srvVars>>

CallFormatRow ==
  /\ last.op = "none"
  /\ \E l \in Texts, v \in Texts, w \in Widths :
       last' = [op |-> "formatRow", label |-> l, value |-> v, width |-> w,
                out |-> formatRow(l, v, w)]
  /\ UNCHANGED <<variant, registry, modVars, held, exec, srvVars>>

CallFormatPrice ==
  /\ last.op = "none"
  /\ \E n \in Amounts, w \in PriceWidths :
       last' = [op |-> "formatPrice", amount |-> n, width |-> w,
                formatted |-> formatAmount(n), out |-> formatPrice(n, w)]
  /\ UNCHANGED <<variant, registry, modVars, held, exec, srvVars>>

NextLayout ==
  \/ CallAlignText
  \/ CallFormatRow
  \/ CallFormatPrice

SpecLayout == Init /\ [][NextLayout]_vars

\* ------------------------------------------- buildReceipt, called once on
\* a new instance with any document of the set below

DisplayCode == <<"A", "-", "1", "2">>
Address2 == <<"1", "0", "1", "U+D638">>
Documents ==
  { [BodyPlain EXCEPT !.scheduledDeliveryHour = sh, !.scheduledDeliveryMinute = sm,
                      !.deliveryHour = dt[1], !.deliveryMinute = dt[2],
                      !.items = it, !.address2 = a2, !.displayCode = dc] :
      sh \in {NoNum, 0, 9, 15}, sm \in {NoNum, 5, 30},
      dt \in {<<18, 30>>, <<7, NoNum>>, <<NoNum, NoNum>>},
      it \in ItemLists,
      a2 \in {Null, Address2}, dc \in {Null, DisplayCode} }

CallBuildReceipt ==
  /\ last.op = "none"
  /\ \E doc \in Documents :
       last' = [op |-> "buildDocument", doc |-> doc, out |-> BuildReceipt(doc)]
  /\ UNCHANGED <<variant, registry, modVars, held, exec, srvVars>>

NextBuilder == CallBuildReceipt

SpecBuilder == Init /\ [][NextBuilder]_vars

\* ================================================================ properties

\* C1: in the spooler variant, the buffer a POST /print request hands to
\* printReceipt holds the directives buildReceipt made for that request's
\* body and nothing else: no directive of an earlier request is in it.
C1_HandedOnlyOwnDirectives ==
  variant = "spooler" =>
    \A r \in Reqs :
      pc[r] \in {"awaitPrint", "done"} /\ handed[r] # <<>>
        => Directives(handed[r]) = BuildReceipt(Data(body[r]))

\* C2: in the spooler variant, once a printReceipt attempt has ended, well
\* or badly, no staged receipt file is left in the temp directory.
C2_NoStagedFileRemains ==
  (variant = "spooler" /\ last.op = "printReceipt") => tmpFiles = 0

\* The submission of a printReceipt call succeeds: the script is there, the
\* receipt is staged and PowerShell exits 0.
SubmissionSucceeds(env) ==
  env.scriptWrite /\ env.stage = "ok" /\ env.exec = "ok"

\* C3: a printReceipt step of the spooler variant on a buffer that holds
\* data empties that buffer exactly when the submission succeeded; when it
\* did not, the call throws and every buffer is what it was before the call.
C3_ClearIffSubmitted ==
  [][ (last'.op = "printReceipt" /\ variant = "spooler" /\ buffer[held] # <<>>)
        => IF SubmissionSucceeds(last'.env)
             THEN ~last'.thrown /\ buffer'[held] = <<>>
             ELSE last'.thrown /\ buffer' = buffer /\ buffer'[held] # <<>> ]_vars

\* C3 happens: a submission was made and failed, the call threw, and the
\* buffer still holds the receipt.
C3_FailedSubmissionKeptBuffer ==
  /\ variant = "spooler" /\ last.op = "printReceipt"
  /\ last.submitted /\ last.env.exec = "timeout" /\ last.thrown
  /\ buffer[held] # <<>>

\* C4: at no moment are two transmissions to the device in flight.
C4_AtMostOneInFlight == Cardinality(inflight) <= 1

\* C5: an initPrinter call made while an instance is cached (no closePrinter
\* since the call that made it) returns that very instance, runs no
\* Discovery query and constructs nothing.
C5_SecondInitReturnsCached ==
  [][ (last'.op = "initPrinter" /\ printerInstance # 0)
        => /\ ~last'.thrown
           /\ last'.ret = printerInstance
           /\ last'.queries = 0
           /\ UNCHANGED <<printerInstance, sewooPrinterName, iface, buffer>> ]_vars

\* C5 happens: in the spooler variant an initPrinter call has just been
\* answered from the cache, the caller holding the instance of an earlier call.
C5_CachedInitHappened ==
  /\ variant = "spooler" /\ last.op = "initPrinter"
  /\ last.queries = 0 /\ last.ret = held /\ held = printerInstance /\ held # 0

\* C6: right after closePrinter neither a cached instance nor a cached
\* device name is left.
C6_CloseClearsInstanceAndName ==
  last.op = "closePrinter" => (printerInstance = 0 /\ sewooPrinterName = Null)

\* C7: after a first initPrinter of the spooler variant, the discovered port
\* and name are in use when both were found; when either is missing the
\* interface is LPT1 and the device name is unresolved.
C7_DiscoveredOnlyWhenBothFound ==
  (variant = "spooler" /\ last.op = "initPrinter" /\ last.queries = 2 /\ ~last.thrown)
    => IF last.port # Null /\ last.name # Null
         THEN iface[last.ret] = DevicePrefix \o last.port /\ sewooPrinterName = last.name
         ELSE iface[last.ret] = DevicePrefix \o LPT1 /\ sewooPrinterName = Null

\* C8: in the spooler variant, an initPrinter whose Discovery finds no
\* matching device targets LPT1 and leaves the device name unresolved; and
\* every submission of printReceipt names the default 'SEWOO SLK-TS 100' when
\* the name is unresolved and the discovered name when it is not.
C8_DefaultNameIffUnresolved ==
  variant = "spooler" =>
    /\ (last.op = "initPrinter" /\ last.queries = 2 /\ last.port = Null /\ last.name = Null)
         => (iface[last.ret] = DevicePrefix \o LPT1 /\ sewooPrinterName = Null)
    /\ (last.op = "printReceipt" /\ last.submitted)
         => /\ sewooPrinterName = Null => last.name = DefaultPrinterName
            /\ sewooPrinterName # Null => last.name = sewooPrinterName
            /\ last.name = DefaultPrinterName
                 => sewooPrinterName \in {Null, DefaultPrinterName}

\* C8 happens: Discovery found nothing, the instance targets LPT1, and a
\* receipt was submitted under the default name.
C8_SubmittedUnderDefault ==
  /\ variant = "spooler" /\ registry = "empty"
  /\ last.op = "printReceipt" /\ last.submitted
  /\ sewooPrinterName = Null /\ iface[held] = DevicePrefix \o LPT1
  /\ last.name = DefaultPrinterName

\* What the WorkOffline query and the port query behind a checkPrinterStatus
\* call print, read afresh from the registry.
FlagRead(k) == QueryTry(ExecWmic(registry, FieldsOffline, k), 2, TRUE)
PortRead(k) == QueryTry(ExecWmic(registry, FieldsPort, k), 2, TRUE)
FlagAvailable(k) == ~FlagRead(k).thrown /\ Truthy(FlagRead(k).val)
TargetFound(k) == ~PortRead(k).thrown /\ PortRead(k).val # Null

\* C9: checkPrinterStatus never throws and returns a boolean.  In the
\* spooler variant it returns, when the offline flag can be read, whether the
\* flag is FALSE in any letter case, and when it cannot, whether Discovery
\* finds a target; in the direct variant it returns true only when the
\* device reports itself connected.
C9_StatusCaseAnalysis ==
  last.op = "checkPrinterStatus" =>
    /\ ~last.thrown
    /\ last.ret \in BOOLEAN
    /\ variant = "spooler" =>
         last.ret = IF FlagAvailable(last.k3)
                      THEN ToUpperCase(FlagRead(last.k3).val) = FALSE_TEXT
                      ELSE TargetFound(last.k4)
    /\ (variant = "spooler" /\ last.k3 = "ok" /\ registry = "online") => last.ret
    /\ (variant = "spooler" /\ last.k3 = "ok" /\ registry = "offline") => ~last.ret
    /\ (variant = "spooler" /\ registry = "empty") => ~last.ret
    /\ variant = "direct" => (last.ret <=> last.conn = "true")

\* C9 happens: the flag query failed, Discovery found the target, and the
\* status is true.
C9_FlagUnavailableTargetFound ==
  /\ variant = "spooler" /\ last.op = "checkPrinterStatus"
  /\ last.k3 = "error" /\ last.k4 = "ok" /\ registry = "offline"
  /\ last.ret = TRUE

\* C10: no Discovery query throws: a wmic error or timeout, a row cut short
\* and a registry without a match all come back as null; and initPrinter
\* never throws and always returns an instance, on LPT1 when no port came back.
C10_DiscoveryNeverRaises ==
  last.op = "initPrinter" =>
    /\ ~last.thrown
    /\ last.ret # 0 /\ last.ret = printerInstance
    /\ (variant = "spooler" /\ last.queries = 2) =>
         /\ last.k1 \in {"error", "cut"} => last.port = Null
         /\ last.k2 = "error" => last.name = Null
         /\ registry = "empty" => (last.port = Null /\ last.name = Null)
         /\ last.port = Null => iface[last.ret] = DevicePrefix \o LPT1

\* C10 happens: a matching printer is registered, wmic printed its row cut
\* short, and initPrinter returned an instance on LPT1.
C10_MalformedRowFellBack ==
  /\ variant = "spooler" /\ last.op = "initPrinter" /\ last.queries = 2
  /\ registry = "online" /\ last.k1 = "cut"
  /\ last.ret # 0 /\ iface[last.ret] = DevicePrefix \o LPT1

\* The units of U+AC00..U+D7A3 and the surrogate units, by their numbers.
HighSurrogates == {"U+D83C"}
LowSurrogates == {"U+DF4E"}

\* Visual cells of a text: 2 for each code point of U+AC00..U+D7A3, 1 for
\* any other code point (a surrogate pair is one code point).
RECURSIVE Cells(_)
Cells(s) ==
  IF s = <<>> THEN 0
  ELSE IF Len(s) >= 2 /\ s[1] \in HighSurrogates /\ s[2] \in LowSurrogates
    THEN 1 + Cells(SubSeq(s, 3, Len(s)))
  ELSE (IF s[1] \in HangulSyllables THEN 2 ELSE 1) + Cells(SubSeq(s, 2, Len(s)))

Spaces(n) == [i \in 1..n |-> " "]

\* C11: alignText returns a text narrower than width padded with spaces to
\* exactly width cells (on the right for left, on the left for right,
\* floor(remainder / 2) on the left and the rest on the right for center),
\* and returns a text at or above width unchanged.
C11_AlignTextPadsToWidth ==
  last.op = "alignText" =>
    LET rem == last.width - Cells(last.text)
    IN IF rem > 0
         THEN /\ Cells(last.out) = last.width
              /\ last.out =
                   CASE last.align = "left" -> last.text \o Spaces(rem)
                     [] last.align = "right" -> Spaces(rem) \o last.text
                     [] last.align = "center" ->
                          Spaces(rem \div 2) \o last.text \o Spaces(rem - rem \div 2)
         ELSE last.out = last.text

\* C12: formatRow returns label, a gutter of spaces and value filling
\* exactly width cells whenever label and value together are narrower than
\* width, and otherwise label followed at once by value, nothing cut.
C12_FormatRowFillsWidth ==
  last.op = "formatRow" =>
    LET both == Cells(last.label) + Cells(last.value)
    IN IF both < last.width
         THEN /\ last.out = last.label \o Spaces(last.width - both) \o last.value
              /\ Cells(last.out) = last.width
         ELSE /\ last.out = last.label \o last.value
              /\ Cells(last.out) = both

\* The width alignText and formatRow compute for a text: its length plus one
\* more for each unit of U+AC00..U+D7A3.
ActualWidth(s) == Len(s) + KoreanCount(s)

\* C13: the width alignText and formatRow compute for formatAmount(amount)
\* is the plain length formatPrice pads by, so that formatPrice(amount, width)
\* fills exactly width cells whenever the formatted amount is shorter than
\* width.
C13_CurrencySuffixSingleWidth ==
  last.op = "formatPrice" =>
    /\ ActualWidth(last.formatted) = Len(last.formatted)
    /\ Len(last.formatted) < last.width => ActualWidth(last.out) = last.width

\* HH:MM of an hour and a minute below 100.
TwoDigits(n) == <<DigitChars[(n \div 10) + 1], DigitChars[(n % 10) + 1]>>
Clock(h, m) == TwoDigits(h) \o <<":">> \o TwoDigits(m)

\* The texts of the three lines that tell the delivery time.
BannerText(t) == <<"*","*"," ">> \o t \o <<" ","U+C608","U+C57D","U+BC30","U+B2EC"," ","*","*">>
ArrivalPrefix == <<"U+B3C4","U+CC29","U+C608","U+C815",":"," ">>
PlainPrefix == <<"U+BC30","U+B2EC","U+C608","U+C815",":"," ">>
BannerMark == <<"U+C608","U+C57D","U+BC30","U+B2EC">>

StartsWith(s, prefix) == Len(s) >= Len(prefix) /\ SubSeq(s, 1, Len(prefix)) = prefix

\* The places in a receipt of the printed lines whose text P holds of.
LinesWhere(out, P(_)) == {i \in 1..Len(out) : out[i].op = "println" /\ P(out[i].text)}

\* C14: a built receipt holds the scheduled banner and the scheduled-arrival
\* line, both showing HH:MM of the scheduled time, exactly when the document
\* has a scheduled delivery hour; it holds the plain delivery-time line,
\* showing HH:MM of deliveryHour and deliveryMinute, only when it has none;
\* and never a scheduled line together with the plain line.
C14_ScheduledXorPlainLine ==
  last.op = "buildDocument" =>
    LET doc == last.doc
        out == last.out
        scheduled == doc.scheduledDeliveryHour # NoNum
        at == Clock(doc.scheduledDeliveryHour,
                    IF doc.scheduledDeliveryMinute = NoNum THEN 0 ELSE doc.scheduledDeliveryMinute)
        banners == LinesWhere(out, LAMBDA t : Includes(t, BannerMark))
        arrivals == LinesWhere(out, LAMBDA t : StartsWith(t, ArrivalPrefix))
        plains == LinesWhere(out, LAMBDA t : StartsWith(t, PlainPrefix))
    IN /\ scheduled =>
            /\ Cardinality(banners) = 1 /\ Cardinality(arrivals) = 1 /\ plains = {}
            /\ \A i \in banners : out[i].text = BannerText(at)
            /\ \A i \in arrivals : out[i].text = ArrivalPrefix \o at
       /\ ~scheduled =>
            /\ banners = {} /\ arrivals = {}
            /\ Cardinality(plains) =
                 (IF doc.deliveryHour # NoNum /\ doc.deliveryMinute # NoNum THEN 1 ELSE 0)
            /\ \A i \in plains :
                 out[i].text = PlainPrefix \o Clock(doc.deliveryHour, doc.deliveryMinute)
       /\ (banners \cup arrivals = {}) \/ plains = {}

\* C14 happens: a document scheduled at hour 0 with no minute given, which
\* also has deliveryHour 18, has been built and shows 00:00 in its banner.
C14_MidnightBannerBuilt ==
  /\ last.op = "buildDocument"
  /\ last.doc.scheduledDeliveryHour = 0 /\ last.doc.scheduledDeliveryMinute = NoNum
  /\ last.doc.deliveryHour = 18
  /\ \E i \in 1..Len(last.out) :
       last.out[i] = Println(BannerText(<<"0","0",":","0","0">>))

\* The line each block of a receipt opens with (the totals block: its first row).
ShopTitle == <<"U+ACFC","U+C77C","U+B9DB","U+C9D1","1","9","9","5">>
OrderTitle == <<"[","U+C8FC","U+BB38","U+C815","U+BCF4","]">>
CustomerTitle == <<"[","U+ACE0","U+AC1D","U+C815","U+BCF4","]">>
AddressTitle == <<"[","U+BC30","U+B2EC","U+C8FC","U+C18C","]">>
TableTitlePrefix == <<"U+C0C1","U+D488","U+BA85"," ">>
SubtotalPrefix == <<"U+C0C1","U+D488","U+D569","U+ACC4",":">>
GrandTotalPrefix == <<"U+D569","U+ACC4",":">>

\* The one line of `out` that P holds of, 0 when there is none or several.
TheLine(out, P(_)) ==
  LET S == LinesWhere(out, P)
  IN IF Cardinality(S) = 1 THEN CHOOSE i \in S : TRUE ELSE 0

C16_SuccessOnlyIfAllWritten ==
  (last.op = "submitReceipt" /\ ~last.thrown) => last.written = "all"

\* A body the handler must not build: a required field missing, or items
\* not an array, or items empty.
Unbuildable(b) == b \in {"noitems", "missing", "notarray"}

\* A request whose body is unbuildable has been answered 400 with no printer
\* taken and nothing handed over; no buffer holds the receipt of such a
\* body; and buildReceipt called on an empty item list emits the table header
\* row followed at once by the dashed line, no item row.
StateOfUnbuildable ==
  /\ \A r \in Reqs :
       (pc[r] # "idle" /\ Unbuildable(body[r]))
         => (pc[r] = "done" /\ resp[r] = 400 /\ printer[r] = 0 /\ handed[r] = <<>>)
  /\ \A i \in 1..Len(buffer) : \A j \in 1..Len(buffer[i]) : ~Unbuildable(buffer[i][j])
  /\ LET out == Receipts["noitems"]
         table == TheLine(out, LAMBDA t : StartsWith(t, TableTitlePrefix))
     IN table > 0 /\ out[table + 1] = Println([i \in 1..32 |-> "-"])

\* C17: through POST /print, a request with a missing required field or an
\* item list that is empty or not an array is answered 400 in the step it
\* arrives in, which leaves the printer module, its buffers and the
\* transmissions as they were, so that buildReceipt never runs on it; and
\* buildReceipt called directly on an empty item list emits the table header
\* row and no item row.
C17_InvalidRejectedUntouched ==
  /\ []StateOfUnbuildable
  /\ [][ \A r \in Reqs :
           (pc[r] = "idle" /\ pc'[r] # "idle" /\ Unbuildable(body'[r]))
             => UNCHANGED <<modVars, inflight, handed, printer, isConnected>> ]_vars

\* C17 happens: after a first request was printed, a second one with an
\* empty item list was answered 400 and the buffer is still empty.
C17_EmptyItemsAnswered400 ==
  /\ resp[1] = 200 /\ body[2] = "noitems" /\ resp[2] = 400
  /\ printerInstance # 0 /\ buffer[printerInstance] = <<>>

\* C18: a process that has exited after SIGTERM or SIGINT called
\* closePrinter() before it exited.
C18_ReleasedBeforeExit ==
  proc.phase = "exited" => proc.released

\* C19: in the spooler variant every execSync carries a timeout, so that a
\* call of initPrinter, checkPrinterStatus or printReceipt that is waiting
\* for a child process always returns in the end, whether or not the child
\* ever exits by itself.
C19_CallsEventuallyReturn ==
  \A fn \in ExecFns : (exec.fn = fn) ~> (exec.fn = "none")

\* C19 happens: a checkPrinterStatus call returned after all four of its
\* children were killed at their timeouts.
C19_ReturnedAfterFourKills ==
  last.op = "returned" /\ last.fn = "checkPrinterStatus" /\ last.kills = 4

\* The resources Send takes, in the order it takes them, each with the call
\* that takes it and the call that gives it back.
SendResources ==
  << [start |-> "OpenPrinter", end |-> "ClosePrinter"],
     [start |-> "StartDocPrinter", end |-> "EndDocPrinter"],
     [start |-> "StartPagePrinter", end |-> "EndPagePrinter"],
     [start |-> "AllocCoTaskMem", end |-> "FreeCoTaskMem"] >>

\* The places of a call in a sequence of calls.
Places(calls, c) == {i \in 1..Len(calls) : calls[i] = c}

\* The resource was taken: its call was made and did not return false.
Taken(calls, fails, k) ==
  /\ Places(calls, SendResources[k].start) # {}
  /\ fails # (CASE k = 1 -> "open" [] k = 2 -> "startDoc"
                [] k = 3 -> "startPage" [] OTHER -> "never")

\* C20: when RawPrinterHelper.Send has returned, true or false, every
\* resource it took (printer handle, document, page, memory) was given back
\* exactly once, after it was taken and before every resource taken earlier
\* was given back (page ended before document, document before the handle is
\* closed), and no resource that was not taken was ended or closed.
C20_SendReleasesInReverse ==
  (last.op = "submitReceipt" /\ last.returned) =>
    \A k \in 1..Len(SendResources) :
      LET ends == Places(last.calls, SendResources[k].end)
      IN IF Taken(last.calls, last.fails, k)
           THEN /\ Cardinality(ends) = 1
                /\ \A i \in Places(last.calls, SendResources[k].start),
                      j \in ends : i < j
                /\ \A m \in 1..(k - 1) :
                     \A i \in Places(last.calls, SendResources[m].end),
                        j \in ends : j < i
           ELSE ends = {}

\* C20 happens: Send returned false because StartPagePrinter failed, after
\* ending the document and closing the handle.
C20_StartPageFailedReturned ==
  /\ last.op = "submitReceipt" /\ last.returned /\ last.fails = "startPage"
  /\ last.calls = <<"OpenPrinter", "StartDocPrinter", "StartPagePrinter",
                    "EndDocPrinter", "ClosePrinter">>

\* The place in `out` of the row of the i-th item: the table's title line
\* is followed by one row per item (0 when the title line is not found).
RowOf(out, i) ==
  LET table == TheLine(out, LAMBDA t : StartsWith(t, TableTitlePrefix))
  IN IF table = 0 THEN 0 ELSE table + i

\* The first n characters (code points) of a text.
RECURSIVE FirstChars(_, _)
FirstChars(s, n) ==
  IF n = 0 \/ s = <<>> THEN <<>>
  ELSE IF Len(s) >= 2 /\ s[1] \in HighSurrogates /\ s[2] \in LowSurrogates
    THEN SubSeq(s, 1, 2) \o FirstChars(SubSeq(s, 3, Len(s)), n - 1)
  ELSE <<s[1]>> \o FirstChars(SubSeq(s, 2, Len(s)), n - 1)

\* C21: the row of every item of a built receipt opens with the product
\* name unchanged when the name is at most 14 cells wide, and with the first
\* 7 characters of the name, whatever their width, in place of the name
\* exactly when the name is wider than 14 cells.
C21_NameCutIffWiderThan14 ==
  last.op = "buildDocument" =>
    \A i \in 1..Len(last.doc.items) :
      LET name == last.doc.items[i].productName
          row == last.out[RowOf(last.out, i)].text
          shown == IF Cells(name) > 14 THEN FirstChars(name, 7) ELSE name
      IN /\ RowOf(last.out, i) > 0
         /\ StartsWith(row, shown)
         /\ Cells(name) <= 14 => StartsWith(row, name)
         /\ Cells(name) > 14 => ~StartsWith(row, name)

\* A text set to the right of a field of n cells.
RightIn(s, n) == Spaces(n - Len(s)) \o s

\* C22: in a built receipt the row of every item whose quantity has at most
\* 3 digits, whose unit price (amount / quantity, locale-formatted) has at
\* most 7 characters and whose amount has at most 8 is a name field of
\* exactly 14 cells (the name or its opening characters, then spaces)
\* followed by the quantity right-aligned in 3 cells, the unit price in 7 and
\* the amount in 8: 32 cells in all.
C22_ItemRowFills32Cells ==
  last.op = "buildDocument" =>
    \A i \in 1..Len(last.doc.items) :
      LET item == last.doc.items[i]
          qty == Digits(item.quantity)
          unit == LocaleQuotient(item.amount, item.quantity)
          amt == LocaleInt(item.amount)
          row == last.out[RowOf(last.out, i)].text
          head == SubSeq(row, 1, Len(row) - 18)
      IN (Len(qty) <= 3 /\ Len(unit) <= 7 /\ Len(amt) <= 8) =>
           /\ Len(row) >= 18
           /\ SubSeq(row, Len(row) - 17, Len(row))
                = RightIn(qty, 3) \o RightIn(unit, 7) \o RightIn(amt, 8)
           /\ \E k \in 0..Len(head) :
                /\ k <= Len(item.productName)
                /\ head = SubSeq(item.productName, 1, k) \o Spaces(Len(head) - k)
           /\ Cells(head) = 14
           /\ Cells(row) = 32

\* The registry rows whose printer name holds SEWOO in any letter case.
NamedSewoo(rows) ==
  {i \in 1..Len(rows) : Includes(ToUpperCase(rows[i].name), SEWOO)}

\* C23: what the two Discovery calls of initPrinter return, when it is a
\* value, comes from the first registry row whose printer name holds SEWOO
\* in any letter case (the port with only letters and digits kept, the name
\* trimmed); no value comes from the header or from a row whose printer name
\* does not hold SEWOO.
C23_ValueFromFirstNamedRow ==
  (last.op = "initPrinter" /\ last.queries = 2) =>
    LET rows == RegistryRows(registry)
        named == NamedSewoo(rows)
    IN /\ last.port # Null =>
            (named # {} /\ last.port = StripNonAlphaNum(rows[MinOf(named)].port))
       /\ last.name # Null =>
            (named # {} /\ last.name = Trim(rows[MinOf(named)].name))

\* Every buffer there was is as it was; an instance made meanwhile has an
\* empty one.
BuffersKept ==
  /\ Len(buffer') >= Len(buffer)
  /\ \A i \in 1..Len(buffer) : buffer'[i] = buffer[i]
  /\ \A i \in (Len(buffer) + 1)..Len(buffer') : buffer'[i] = <<>>

\* C24: a POST /print request whose checkPrinterStatus() returned false is
\* answered 500 in its next step; neither the step that got the status nor
\* the step that answers appends to a command buffer, clears one, stages a
\* file or hands anything to the printer.
C24_OfflineAnsweredBufferKept ==
  /\ [][ \A r \in Reqs :
           (pc[r] = "idle" /\ pc'[r] = "awaitStatus" /\ ~isConnected'[r])
             => (BuffersKept /\ UNCHANGED <<tmpFiles, handed, inflight>>) ]_vars
  /\ [][ \A r \in Reqs :
           (pc[r] = "awaitStatus" /\ ~isConnected[r] /\ pc'[r] # "awaitStatus")
             => /\ pc'[r] = "done" /\ resp'[r] = 500
                /\ UNCHANGED <<buffer, tmpFiles, handed, inflight>> ]_vars

\* C24 happens: the first request failed in the submission and left its
\* receipt in the buffer; the second was answered 500 because the status
\* was false, and the buffer still holds the first receipt alone.
C24_OfflineAfterKeptReceipt ==
  /\ resp[1] = 500 /\ failed[1] /\ body[1] = "plain"
  /\ pc[2] = "done" /\ resp[2] = 500 /\ printer[2] # 0 /\ ~isConnected[2]
  /\ handed[2] = <<>>
  /\ buffer[printer[2]] = <<"plain">>

\* The style a printer is in: emphasis, text size, alignment.
StyleNormal == [bold |-> FALSE, size |-> "normal", align |-> "left"]

\* The style after a directive.
StyleAfter(style, d) ==
  CASE d.op = "bold" -> [style EXCEPT !.bold = d.on]
    [] d.op = "setTextQuadArea" -> [style EXCEPT !.size = "quad"]
    [] d.op = "setTextDoubleHeight" -> [style EXCEPT !.size = "doubleHeight"]
    [] d.op = "setTextNormal" -> [style EXCEPT !.size = "normal"]
    [] d.op = "alignCenter" -> [style EXCEPT !.align = "center"]
    [] d.op = "alignLeft" -> [style EXCEPT !.align = "left"]
    [] OTHER -> style

\* The style the i-th directive of `out` is emitted in, on a printer that
\* was in the normal style before the first.
RECURSIVE StyleAt(_, _)
StyleAt(out, i) ==
  IF i <= 1 THEN StyleNormal ELSE StyleAfter(StyleAt(out, i - 1), out[i - 1])

\* The directives a block of a receipt opens or closes with, the item rows
\* and the cut.
BlockEdges(doc, out) ==
  {i \in 1..Len(out) :
     \/ out[i].op = "cut"
     \/ out[i] = Dashes
     \/ out[i].op = "println"
          /\ \/ out[i].text \in {OrderTitle, CustomerTitle, AddressTitle}
             \/ StartsWith(out[i].text, TableTitlePrefix)}
    \cup {RowOf(out, k) : k \in 1..Len(doc.items)}

\* C25: in a built receipt, whatever optional parts it has, every block
\* title, every dashed line, every item row and the cut are emitted with
\* emphasis off, normal text size and left alignment, and the receipt
\* leaves the printer in that style.
C25_StyleResetBetweenBlocks ==
  last.op = "buildDocument" =>
    /\ \A i \in BlockEdges(last.doc, last.out) :
         i > 0 /\ StyleAt(last.out, i) = StyleNormal
    /\ StyleAt(last.out, Len(last.out) + 1) = StyleNormal
    /\ Cardinality(BlockEdges(last.doc, last.out)) >= 8 + Len(last.doc.items)

\* C25 happens: a receipt with the banner, a second address line and three
\* items has been built; its banner was emitted centered in bold double
\* height and its second address line in bold double height.
C25_StyledPartsBuilt ==
  /\ last.op = "buildDocument"
  /\ last.doc.scheduledDeliveryHour = 9 /\ Len(last.doc.items) = 3
  /\ \E i, j \in 1..Len(last.out) :
       /\ last.out[i].op = "println" /\ Includes(last.out[i].text, BannerMark)
       /\ StyleAt(last.out, i) = [bold |-> TRUE, size |-> "doubleHeight", align |-> "center"]
       /\ last.out[j] = Println(Address2)
       /\ StyleAt(last.out, j) = [bold |-> TRUE, size |-> "doubleHeight", align |-> "left"]

=============================================================================
